---- MODULE Spec2Model ----
(***************************************************************************)
(* Model of code/sampling/transforms.py: the image-augmentation transforms *)
(* (Compose, LambdaTransform, ExpandDims, ToCategorical, TypeCast), the    *)
(* resampler (transform_matrix_offset_center, apply_transform), the affine *)
(* composers (Affine, AffineCompose) and the matrix builders (Rotate,      *)
(* Translate, Shear, Zoom).                                                *)
(*                                                                         *)
(* Numbers.  Matrix entries, translation fractions and centre offsets are  *)
(* fixed-point values with denominator Unit (= 2, the denominator of       *)
(* o_x = x/2 + 0.5).  Angles are counted in quarter turns, so that sin and *)
(* cos are exact; a rotation range of 1 is 90 degrees, a shear range of 1  *)
(* is pi/2 radians.  random.uniform(a, b) is a nondeterministic choice     *)
(* among the model values between a and b.                                 *)
(*                                                                         *)
(* Arrays.  An array is its shape and dtype; the pixels of a resampled     *)
(* array are represented by the arguments ndi.affine_transform was given   *)
(* (the 2x2 matrix, the offset, the mode and the cval).                    *)
(***************************************************************************)
EXTENDS Integers, Sequences, FiniteSets, TLC

VARIABLES
    heap,       \* builder objects created by the caller: id -> object
    ctor0,      \* id -> the object as its constructor left it
    composer,   \* the Affine / AffineCompose object, if one was constructed
    composer0,  \* the arguments the composer was constructed with
    pipeline,   \* the Compose object, if one was constructed
    tocat,      \* the ToCategorical object, if one was constructed
    tocat0,     \* the ToCategorical object as its constructor left it
    last        \* outcome of the last operation (return value or exception)

vars == <<heap, ctor0, composer, composer0, pipeline, tocat, tocat0, last>>

----------------------------------------------------------------------------
(* Bounds *)

MaxChain    == 2     \* length of the list given to AffineCompose
MaxDim      == 2     \* largest size of an image axis
MaxPipe     == 2     \* length of the list given to Compose
MaxLabel    == 2     \* largest class label given to ToCategorical
MaxLabels   == 2     \* number of labels in one ToCategorical input

Unit == 2            \* fixed-point denominator: 1.0 is Unit, 0.5 is Unit \div 2

----------------------------------------------------------------------------
(* Python and numpy primitives used by the code *)

Min(a, b) == IF a <= b THEN a ELSE b
Max(a, b) == IF a >= b THEN a ELSE b

\* random.uniform(a, b) = a + (b - a) * random(): any value between a and b,
\* whichever of the two is larger.
Uniform(a, b) == Min(a, b) .. Max(a, b)

\* math.sin / math.cos of an angle of q quarter turns.
Sin(q) == CASE q % 4 = 0 -> 0 [] q % 4 = 1 -> 1 [] q % 4 = 2 -> 0 [] q % 4 = 3 -> -1
Cos(q) == CASE q % 4 = 0 -> 1 [] q % 4 = 1 -> 0 [] q % 4 = 2 -> -1 [] q % 4 = 3 -> 0

\* np.dot of two 3x3 fixed-point matrices.
Dot(A, B) ==
    [i \in 1..3 |-> [j \in 1..3 |->
        (A[i][1] * B[1][j] + A[i][2] * B[2][j] + A[i][3] * B[3][j]) \div Unit]]

Identity == <<<<Unit, 0, 0>>, <<0, Unit, 0>>, <<0, 0, Unit>>>>

\* a.insert(start, axis) after a.remove(axis), on a Python list.
ListMove(s, from, to) ==
    LET rest == [k \in 1..(Len(s) - 1) |-> IF k < from THEN s[k] ELSE s[k + 1]]
    IN  [k \in 1..Len(s) |->
            IF k < to THEN rest[k] ELSE IF k = to THEN s[from] ELSE rest[k - 1]]

\* The shape of np.rollaxis(x, axis, start), x of the given shape; axes are
\* 0-based as in numpy.
RollAxis(shape, axis, start) ==
    LET n  == Len(shape)
        ax == IF axis < 0 THEN axis + n ELSE axis
        s0 == IF start < 0 THEN start + n ELSE start
        s1 == IF ax < s0 THEN s0 - 1 ELSE s0
    IN  IF ax = s1 THEN shape ELSE ListMove(shape, ax + 1, s1 + 1)

----------------------------------------------------------------------------
(* Outcomes of an operation *)

NoArr == [shape |-> <<>>, dtype |-> "", affine |-> <<>>, offset |-> <<>>,
          mode |-> "", cval |-> 0]
NoMat == <<>>

\* An input array: only its shape and dtype are given.
Arr(shape, dtype) == [NoArr EXCEPT !.shape = shape, !.dtype = dtype]

Outcome == [op |-> "", err |-> "", ret |-> "None", matrix |-> NoMat,
            X |-> NoArr, y |-> NoArr, draws |-> <<>>, calls |-> <<>>,
            arg |-> NoArr, argy |-> NoArr, rows |-> <<>>, obj |-> 0, axis |-> 0,
            given |-> [type |-> "None", vals |-> <<>>]]

Raise(e) == [Outcome EXCEPT !.err = e]

----------------------------------------------------------------------------
(* Centering and resampling *)

transform_matrix_offset_center(matrix, x, y) ==
    LET o_x == (Unit * x) \div 2 + Unit \div 2
        o_y == (Unit * y) \div 2 + Unit \div 2
        offset_matrix == <<<<Unit, 0, o_x>>, <<0, Unit, o_y>>, <<0, 0, Unit>>>>
        reset_matrix  == <<<<Unit, 0, -o_x>>, <<0, Unit, -o_y>>, <<0, 0, Unit>>>>
    IN  Dot(Dot(offset_matrix, matrix), reset_matrix)

\* apply_transform(x, transform, fill_mode, fill_value, channel_axis): the
\* returned array, or NoArr with an IndexError when x.shape[2] does not exist.
apply_transform(x, transform, fill_mode, fill_value, channel_axis) ==
    LET rolled == RollAxis(x.shape, channel_axis, 0)
    IN  IF Len(rolled) < 3 THEN [err |-> "IndexError", arr |-> NoArr]
        ELSE
        LET t == transform_matrix_offset_center(transform, rolled[2], rolled[3])
            final_affine_matrix == <<<<t[1][1], t[1][2]>>, <<t[2][1], t[2][2]>>>>
            final_offset == <<t[1][3], t[2][3]>>
            \* one resampled channel per x_channel in x, each of x_channel's shape
            stacked == <<rolled[1]>> \o SubSeq(rolled, 2, Len(rolled))
            out == RollAxis(stacked, 0, channel_axis + 1)
        IN  [err |-> "",
             arr |-> [shape |-> out, dtype |-> "float32",
                      affine |-> final_affine_matrix, offset |-> final_offset,
                      mode |-> fill_mode, cval |-> fill_value]]

----------------------------------------------------------------------------
(* Constructor arguments *)

\* A Python value given as a range argument: its type and its numbers.
\* None is Val("None", <<>>); a float or int f is Val("float", <<f>>).
Val(type, vals) == [type |-> type, vals |-> vals]
None == Val("None", <<>>)

IsNumber(v) == v.type \in {"float", "int"}

\* bool(v), as `if rotation_range:` evaluates it.
Truthy(v) ==
    IF IsNumber(v) THEN v.vals[1] # 0
    ELSE IF v.type = "None" THEN FALSE
    ELSE Len(v.vals) > 0

\* The methods each class defines (besides object's own).
ClassMethods(cls) ==
    CASE cls \in {"Rotate", "Translate", "Shear", "Zoom"} -> {"__init__", "transform"}
      [] cls \in {"Affine", "AffineCompose"} -> {"__init__", "transform"}
      [] OTHER -> {}

NoObj == [cls |-> "None"]

----------------------------------------------------------------------------
(* Matrix builders: constructors.  Each returns [err, obj]. *)

Rotate_init(rotation_range, fill_mode, fill_value, target_fill_mode, target_fill_value, lazy) ==
    [err |-> "",
     obj |-> [cls |-> "Rotate", rotation_range |-> rotation_range,
              fill_mode |-> fill_mode, fill_value |-> fill_value,
              target_fill_mode |-> target_fill_mode,
              target_fill_value |-> target_fill_value, lazy |-> lazy]]

Translate_init(translation_range, fill_mode, fill_value, target_fill_mode, target_fill_value, lazy) ==
    LET tr == IF translation_range.type = "float"
              THEN Val("tuple", <<translation_range.vals[1], translation_range.vals[1]>>)
              ELSE translation_range
    IN  IF tr.type \notin {"tuple", "list"} THEN [err |-> "TypeError", obj |-> NoObj]
        ELSE IF Len(tr.vals) < 2 THEN [err |-> "IndexError", obj |-> NoObj]
        ELSE
        [err |-> "",
         obj |-> [cls |-> "Translate", height_range |-> tr.vals[1],
                  width_range |-> tr.vals[2],
                  fill_mode |-> fill_mode, fill_value |-> fill_value,
                  target_fill_mode |-> target_fill_mode,
                  target_fill_value |-> target_fill_value, lazy |-> lazy]]

Shear_init(shear_range, fill_mode, fill_value, target_fill_mode, target_fill_value, lazy) ==
    [err |-> "",
     obj |-> [cls |-> "Shear", shear_range |-> shear_range,
              fill_mode |-> fill_mode, fill_value |-> fill_value,
              target_fill_mode |-> target_fill_mode,
              target_fill_value |-> target_fill_value, lazy |-> lazy]]

Zoom_init(zoom_range, fill_mode, fill_value, target_fill_mode, target_fill_value, lazy) ==
    IF zoom_range.type # "list" /\ zoom_range.type # "tuple"
    THEN [err |-> "ValueError", obj |-> NoObj]
    ELSE
    [err |-> "",
     obj |-> [cls |-> "Zoom", zoom_range |-> zoom_range,
              fill_mode |-> fill_mode, fill_value |-> fill_value,
              target_fill_mode |-> target_fill_mode,
              target_fill_value |-> target_fill_value, lazy |-> lazy]]

----------------------------------------------------------------------------
(* Matrix builders: transform.  Each is the set of possible outcomes, one  *)
(* per value the random draws can take.                                    *)

Draw(name, value) == [name |-> name, value |-> value]

\* The tail shared by the four transform methods: return the matrix when
\* lazy, else resample X (and y, when given) with the builder's own fill.
ReturnOrApply(self, op, matrix, X, y, draws) ==
    LET base == [Outcome EXCEPT !.op = op, !.matrix = matrix, !.draws = draws,
                                !.arg = X, !.argy = y]
    IN  IF self.lazy THEN [base EXCEPT !.ret = "matrix"]
        ELSE
        LET x_transformed == apply_transform(X, matrix, self.fill_mode,
                                             self.fill_value, -1)
        IN  IF x_transformed.err # "" THEN [base EXCEPT !.err = x_transformed.err]
            ELSE IF y # NoArr THEN
                LET y_transformed == apply_transform(y, matrix, self.target_fill_mode,
                                                     self.target_fill_value, -1)
                IN  IF y_transformed.err # "" THEN [base EXCEPT !.err = y_transformed.err]
                    ELSE [base EXCEPT !.ret = "pair", !.X = x_transformed.arr,
                                      !.y = y_transformed.arr]
            ELSE [base EXCEPT !.ret = "image", !.X = x_transformed.arr]

Rotate_transform(self, X, y) ==
    IF ~IsNumber(self.rotation_range)
    THEN {[Raise("TypeError") EXCEPT !.op = "Rotate.transform", !.arg = X, !.argy = y]}
    ELSE
    LET r == self.rotation_range.vals[1]
    IN  { LET theta == degree
              rotation_matrix == <<<<Unit * Cos(theta), -Unit * Sin(theta), 0>>,
                                   <<Unit * Sin(theta), Unit * Cos(theta), 0>>,
                                   <<0, 0, Unit>>>>
          IN  ReturnOrApply(self, "Rotate.transform", rotation_matrix, X, y,
                            <<Draw("degree", degree)>>)
          : degree \in Uniform(-r, r) }

\* Translate.transform without the `if self.height_range > 0` and
\* `if self.width_range > 0` tests: both shifts are always sampled.
Translate_transform_always_draws(self, X, y) ==
    { LET tx == uv[1] * X.shape[1]
          ty == uv[2] * X.shape[2]
          translation_matrix == <<<<Unit, 0, tx>>, <<0, Unit, ty>>, <<0, 0, Unit>>>>
      IN  ReturnOrApply(self, "Translate.transform", translation_matrix, X, y,
                        <<Draw("tx", uv[1]), Draw("ty", uv[2])>>)
      : uv \in Uniform(-self.height_range, self.height_range)
               \X Uniform(-self.width_range, self.width_range) }

Translate_transform(self, X, y) ==
    IF Len(X.shape) < 2
    THEN {[Raise("IndexError") EXCEPT !.op = "Translate.transform", !.arg = X, !.argy = y]}
    ELSE
    LET hs == IF self.height_range > 0
              THEN Uniform(-self.height_range, self.height_range) ELSE {0}
        ws == IF self.width_range > 0
              THEN Uniform(-self.width_range, self.width_range) ELSE {0}
    IN  { LET tx == IF self.height_range > 0 THEN uv[1] * X.shape[1] ELSE 0
              ty == IF self.width_range > 0 THEN uv[2] * X.shape[2] ELSE 0
              translation_matrix == <<<<Unit, 0, tx>>, <<0, Unit, ty>>, <<0, 0, Unit>>>>
              draws == (IF self.height_range > 0 THEN <<Draw("tx", uv[1])>> ELSE <<>>)
                       \o (IF self.width_range > 0 THEN <<Draw("ty", uv[2])>> ELSE <<>>)
          IN  ReturnOrApply(self, "Translate.transform", translation_matrix, X, y, draws)
          : uv \in hs \X ws }

Shear_transform(self, X, y) ==
    IF ~IsNumber(self.shear_range)
    THEN {[Raise("TypeError") EXCEPT !.op = "Shear.transform", !.arg = X, !.argy = y]}
    ELSE
    LET r == self.shear_range.vals[1]
    IN  { LET shear_matrix == <<<<Unit, -Unit * Sin(shear), 0>>,
                                <<0, Unit * Cos(shear), 0>>,
                                <<0, 0, Unit>>>>
          IN  ReturnOrApply(self, "Shear.transform", shear_matrix, X, y,
                            <<Draw("shear", shear)>>)
          : shear \in Uniform(-r, r) }

Zoom_transform(self, X, y) ==
    IF Len(self.zoom_range.vals) < 2
    THEN {[Raise("IndexError") EXCEPT !.op = "Zoom.transform", !.arg = X, !.argy = y]}
    ELSE
    LET z == self.zoom_range.vals
    IN  { LET zx == zz[1]
              zy == zz[2]
              zoom_matrix == <<<<Unit * zx, 0, 0>>, <<0, Unit * zy, 0>>, <<0, 0, Unit>>>>
          IN  ReturnOrApply(self, "Zoom.transform", zoom_matrix, X, y,
                            <<Draw("zx", zx), Draw("zy", zy)>>)
          : zz \in Uniform(z[1], z[2]) \X Uniform(z[1], z[2]) }

\* obj.transform(X, y) for a builder object.
Builder_transform(self, X, y) ==
    CASE self.cls = "Rotate"    -> Rotate_transform(self, X, y)
      [] self.cls = "Translate" -> Translate_transform(self, X, y)
      [] self.cls = "Shear"     -> Shear_transform(self, X, y)
      [] self.cls = "Zoom"      -> Zoom_transform(self, X, y)

\* obj(X): Python looks __call__ up on the class of obj, and raises
\* TypeError ("object is not callable") when the class defines none.  No
\* class of the file defines it; the composers' comment ("collect all of the
\* lazily returned tform matrices") says what the call was to return.
PyCall(obj, X) ==
    IF "__call__" \notin ClassMethods(obj.cls)
    THEN {[Raise("TypeError") EXCEPT !.op = "__call__", !.arg = X]}
    ELSE Builder_transform(obj, X, NoArr)

----------------------------------------------------------------------------
(* Matrix composers *)

\* Heap ids: the caller holds one builder object; the four ids after it
\* hold the builders an Affine object creates for itself (rotation,
\* translation, shear, zoom).
CallerIds == {1}
AffineId(k) == Cardinality(CallerIds) + k
Ids == CallerIds \cup {AffineId(k) : k \in 1..4}

\* Affine.__init__: [err, obj, heap], heap being the heap afterwards.
Affine_init(h, rotation_range, translation_range, shear_range, zoom_range) ==
    LET rot == IF Truthy(rotation_range)
               THEN Rotate_init(rotation_range, "constant", 0, "nearest", 0, TRUE)
               ELSE [err |-> "", obj |-> NoObj]
        tra == IF Truthy(translation_range)
               THEN Translate_init(translation_range, "constant", 0, "nearest", 0, TRUE)
               ELSE [err |-> "", obj |-> NoObj]
        she == IF Truthy(shear_range)
               THEN Shear_init(shear_range, "constant", 0, "nearest", 0, TRUE)
               ELSE [err |-> "", obj |-> NoObj]
        zoo == IF Truthy(zoom_range)
               THEN Zoom_init(zoom_range, "constant", 0, "nearest", 0, TRUE)
               ELSE [err |-> "", obj |-> NoObj]
        made == <<rot, tra, she, zoo>>
        failed == {k \in 1..4 : made[k].err # ""}
        transforms == SelectSeq(<<1, 2, 3, 4>>, LAMBDA k : made[k].obj # NoObj)
    IN  IF failed # {}
        THEN [err |-> made[CHOOSE k \in failed : \A j \in failed : k <= j].err,
              obj |-> NoObj, heap |-> h]
        ELSE [err |-> "",
              obj |-> [cls |-> "Affine",
                       transforms |-> [i \in 1..Len(transforms) |-> AffineId(transforms[i])],
                       fill_mode |-> "constant", fill_value |-> 0,
                       target_fill_mode |-> "nearest", target_fill_value |-> 0],
              heap |-> [i \in Ids |-> IF i \in CallerIds THEN h[i]
                                      ELSE made[i - Cardinality(CallerIds)].obj]]

\* AffineCompose.__init__ setting lazy on every builder there is, not only
\* on the ones in its list.
AffineCompose_init_all(h, transforms, fill_mode, fill_value, target_fill_mode, target_fill_value) ==
    [err |-> "",
     obj |-> [cls |-> "AffineCompose", transforms |-> transforms,
              fill_mode |-> fill_mode, fill_value |-> fill_value,
              target_fill_mode |-> target_fill_mode,
              target_fill_value |-> target_fill_value],
     heap |-> [i \in Ids |-> IF h[i] # NoObj THEN [h[i] EXCEPT !.lazy = TRUE] ELSE h[i]]]

\* AffineCompose.__init__
AffineCompose_init(h, transforms, fill_mode, fill_value, target_fill_mode, target_fill_value) ==
    [err |-> "",
     obj |-> [cls |-> "AffineCompose", transforms |-> transforms,
              fill_mode |-> fill_mode, fill_value |-> fill_value,
              target_fill_mode |-> target_fill_mode,
              target_fill_value |-> target_fill_value],
     heap |-> [i \in Ids |->
                 IF \E k \in 1..Len(transforms) : transforms[k] = i
                 THEN [h[i] EXCEPT !.lazy = TRUE] ELSE h[i]]]

\* tform_matrix = np.dot(tform_matrix, tform(X)) for each tform of ts, from
\* the outcome acc so far: the set of outcomes over the random draws.
RECURSIVE Accumulate(_, _, _, _)
Accumulate(h, ts, X, acc) ==
    IF acc.err # "" \/ ts = <<>> THEN {acc}
    ELSE UNION { Accumulate(h, Tail(ts), X,
                    IF o.err # "" THEN [acc EXCEPT !.err = o.err]
                    ELSE [acc EXCEPT !.matrix = Dot(acc.matrix, o.matrix),
                                     !.draws = acc.draws \o o.draws])
                 : o \in PyCall(h[Head(ts)], X) }

\* Affine.transform and AffineCompose.transform (the same code), from
\* self.transforms[0](X) on, self.transforms[0] existing.
Composer_compose(h, self, X, y) ==
    LET base == [Outcome EXCEPT !.op = self.cls \o ".transform", !.arg = X, !.argy = y]
    IN  LET firsts == { IF o.err # "" THEN [base EXCEPT !.err = o.err]
                        ELSE [base EXCEPT !.matrix = o.matrix, !.draws = o.draws]
                        : o \in PyCall(h[self.transforms[1]], X) }
            composed == UNION { Accumulate(h, Tail(self.transforms), X, f) : f \in firsts }
        IN  { IF c.err # "" THEN c
              ELSE
              LET ax == apply_transform(X, c.matrix, self.fill_mode, self.fill_value, -1)
              IN  IF ax.err # "" THEN [c EXCEPT !.err = ax.err]
                  ELSE IF y # NoArr THEN
                      LET ay == apply_transform(y, c.matrix, self.target_fill_mode,
                                                self.target_fill_value, -1)
                      IN  IF ay.err # "" THEN [c EXCEPT !.err = ay.err]
                          ELSE [c EXCEPT !.ret = "pair", !.X = ax.arr, !.y = ay.arr]
                  ELSE [c EXCEPT !.ret = "image", !.X = ax.arr]
              : c \in composed }

\* A composer that treats an empty list as "nothing to do" and returns X.
Composer_transform_noop(h, self, X, y) ==
    IF self.transforms = <<>>
    THEN {[Outcome EXCEPT !.op = self.cls \o ".transform", !.arg = X, !.argy = y,
                          !.ret = "image", !.X = X]}
    ELSE Composer_compose(h, self, X, y)

\* Affine.transform and AffineCompose.transform: self.transforms[0] raises
\* IndexError on an empty list.
Composer_transform(h, self, X, y) ==
    IF self.transforms = <<>>
    THEN {[Outcome EXCEPT !.op = self.cls \o ".transform", !.arg = X, !.argy = y,
                          !.err = "IndexError"]}
    ELSE Composer_compose(h, self, X, y)

----------------------------------------------------------------------------
(* Inputs *)

FillModes == {"constant", "nearest"}

RotationRanges    == {Val("float", <<1>>)}
TranslationRanges == {Val("float", <<1>>), Val("tuple", <<0, 1>>), Val("tuple", <<1, 0>>)}
ShearRanges       == {Val("float", <<1>>)}
ZoomRanges        == {Val("tuple", <<1, 2>>), Val("tuple", <<2, 1>>), Val("tuple", <<0, 1>>),
                      Val("list", <<1, 2, 3>>), Val("float", <<2>>)}

\* Arguments of Affine(...): omitted, zero-effect, or a range with an effect.
\* <<rotation_range, translation_range, shear_range, zoom_range>>
AffineArgs ==
    { <<None, None, None, None>>,
      <<Val("float", <<0>>), Val("float", <<0>>), Val("float", <<0>>), None>>,
      <<Val("float", <<0>>), Val("tuple", <<0, 0>>), Val("float", <<0>>), Val("tuple", <<1, 1>>)>>,
      <<None, None, None, Val("tuple", <<1, 1>>)>>,
      <<None, Val("tuple", <<0, 0>>), None, None>>,
      <<Val("float", <<1>>), None, None, None>>,
      <<Val("float", <<1>>), Val("tuple", <<0, 1>>), Val("float", <<1>>), Val("tuple", <<1, 2>>)>>,
      <<None, Val("int", <<1>>), None, None>>,
      <<None, None, None, Val("float", <<2>>)>> }

\* Images (H, W, C) and their optional targets.
Images == {Arr(<<1, 2, 1>>, "uint8"), Arr(<<2, 1, 3>>, "uint8")}
Targets(X) == {NoArr, Arr(X.shape, "int64")}

\* Lists of the caller's existing builders, as given to AffineCompose.
Chains(h) ==
    UNION { [1..n -> {i \in CallerIds : h[i] # NoObj}] : n \in 0..MaxChain }

----------------------------------------------------------------------------
(* The affine subsystem as a state machine *)

Init ==
    /\ heap = [i \in Ids |-> NoObj]
    /\ ctor0 = [i \in Ids |-> NoObj]
    /\ composer = NoObj
    /\ composer0 = <<>>
    /\ pipeline = NoObj
    /\ tocat = NoObj
    /\ tocat0 = NoObj
    /\ last = Outcome

\* b = Cls(range, lazy=...): on an exception b keeps what it held.
Stored(objs, i, made) == IF made.err = "" THEN [objs EXCEPT ![i] = made.obj] ELSE objs
Constructed(op, made, i) == [Outcome EXCEPT !.op = op, !.err = made.err, !.obj = i]

NewRotate ==
    \E i \in CallerIds, r \in RotationRanges, lazy \in BOOLEAN :
        LET made == Rotate_init(r, "constant", 0, "nearest", 0, lazy)
        IN  /\ heap' = Stored(heap, i, made)
            /\ ctor0' = Stored(ctor0, i, made)
            /\ last' = Constructed("Rotate.__init__", made, i)
            /\ UNCHANGED <<composer, composer0, pipeline, tocat, tocat0>>

NewTranslate ==
    \E i \in CallerIds, r \in TranslationRanges, lazy \in BOOLEAN :
        LET made == Translate_init(r, "constant", 0, "nearest", 0, lazy)
        IN  /\ heap' = Stored(heap, i, made)
            /\ ctor0' = Stored(ctor0, i, made)
            /\ last' = Constructed("Translate.__init__", made, i)
            /\ UNCHANGED <<composer, composer0, pipeline, tocat, tocat0>>

NewShear ==
    \E i \in CallerIds, r \in ShearRanges, lazy \in BOOLEAN :
        LET made == Shear_init(r, "constant", 0, "nearest", 0, lazy)
        IN  /\ heap' = Stored(heap, i, made)
            /\ ctor0' = Stored(ctor0, i, made)
            /\ last' = Constructed("Shear.__init__", made, i)
            /\ UNCHANGED <<composer, composer0, pipeline, tocat, tocat0>>

\* The outcome also records the zoom_range the constructor was given.
NewZoom ==
    \E i \in CallerIds, r \in ZoomRanges, lazy \in BOOLEAN :
        LET made == Zoom_init(r, "constant", 0, "nearest", 0, lazy)
        IN  /\ heap' = Stored(heap, i, made)
            /\ ctor0' = Stored(ctor0, i, made)
            /\ last' = [Constructed("Zoom.__init__", made, i) EXCEPT !.given = r]
            /\ UNCHANGED <<composer, composer0, pipeline, tocat, tocat0>>

\* heap[i].transform(X, y)
BuilderTransform ==
    \E i \in CallerIds, X \in Images :
    \E y \in Targets(X) :
        /\ heap[i] # NoObj
        /\ \E o \in Builder_transform(heap[i], X, y) : last' = [o EXCEPT !.obj = i]
        /\ UNCHANGED <<heap, ctor0, composer, composer0, pipeline, tocat, tocat0>>

NewAffine ==
    \E a \in AffineArgs :
        LET made == Affine_init(heap, a[1], a[2], a[3], a[4])
        IN  /\ heap' = made.heap
            /\ ctor0' = [i \in Ids |-> IF i \in CallerIds THEN ctor0[i] ELSE made.heap[i]]
            /\ composer' = IF made.err = "" THEN made.obj ELSE composer
            /\ composer0' = IF made.err = "" THEN a ELSE composer0
            /\ last' = [Outcome EXCEPT !.op = "Affine.__init__", !.err = made.err]
            /\ UNCHANGED <<pipeline, tocat, tocat0>>

NewAffineCompose ==
    \E ts \in Chains(heap) :
        LET made == AffineCompose_init(heap, ts, "constant", 0, "nearest", 0)
        IN  /\ heap' = made.heap
            /\ composer' = made.obj
            /\ composer0' = <<Val("list", ts)>>
            /\ last' = [Outcome EXCEPT !.op = "AffineCompose.__init__"]
            /\ UNCHANGED <<ctor0, pipeline, tocat, tocat0>>

\* composer.transform(X, y)
ComposerTransform ==
    \E X \in Images :
    \E y \in Targets(X) :
        /\ composer # NoObj
        /\ last' \in Composer_transform(heap, composer, X, y)
        /\ UNCHANGED <<heap, ctor0, composer, composer0, pipeline, tocat, tocat0>>

Next ==
    \/ NewRotate
    \/ NewTranslate
    \/ NewShear
    \/ NewZoom
    \/ BuilderTransform
    \/ NewAffine
    \/ NewAffineCompose
    \/ ComposerTransform

Spec == Init /\ [][Next]_vars

----------------------------------------------------------------------------
(* The resampler called directly *)

\* Images whose three axes have sizes 1..MaxDim.
AllImages == {Arr(<<a, b, c>>, "uint8") : a \in 1..MaxDim, b \in 1..MaxDim, c \in 1..MaxDim}

\* Transform matrices: a linear part (identity, quarter turn, zoom, shear)
\* with a translation.
LinearParts ==
    { <<<<Unit, 0>>, <<0, Unit>>>>, <<<<0, -Unit>>, <<Unit, 0>>>>,
      <<<<2 * Unit, 0>>, <<0, Unit>>>>, <<<<Unit, -Unit>>, <<0, 0>>>> }
Matrices ==
    { <<<<l[1][1], l[1][2], tx>>, <<l[2][1], l[2][2], ty>>, <<0, 0, Unit>>>> :
        l \in LinearParts, tx \in {-1, 0, 1}, ty \in {0, 1} }

\* The position of the channel axis: -1 is the default, 2 the same axis
\* counted from the front, 0 the first axis.
ChannelAxes == {-1, 0, 2}

\* The arguments of one call apply_transform(X, M, fill_mode=mode,
\* channel_axis=axis), before the call is made.
InitResample ==
    /\ heap = [i \in Ids |-> NoObj]
    /\ ctor0 = [i \in Ids |-> NoObj]
    /\ composer = NoObj
    /\ composer0 = <<>>
    /\ pipeline = NoObj
    /\ tocat = NoObj
    /\ tocat0 = NoObj
    /\ \E X \in AllImages, M \in Matrices, mode \in FillModes, axis \in ChannelAxes :
          last = [Outcome EXCEPT !.op = "call apply_transform", !.matrix = M, !.arg = X,
                                 !.axis = axis, !.X = [NoArr EXCEPT !.mode = mode]]

ApplyTransform ==
    /\ last.op = "call apply_transform"
    /\ LET r == apply_transform(last.arg, last.matrix, last.X.mode, 0, last.axis)
       IN  last' = [last EXCEPT !.op = "apply_transform", !.err = r.err,
                                !.ret = IF r.err = "" THEN "image" ELSE "None",
                                !.X = r.arr]
    /\ UNCHANGED <<heap, ctor0, composer, composer0, pipeline, tocat, tocat0>>

NextResample == ApplyTransform

SpecResample == InitResample /\ [][NextResample]_vars

----------------------------------------------------------------------------
(* Compose and the simple transforms *)

LambdaTransform_init(fn) == [cls |-> "LambdaTransform", fn |-> fn]
ExpandDims_init(axis) == [cls |-> "ExpandDims", axis |-> axis]
TypeCast_init(dtype) == [cls |-> "TypeCast", dtype |-> dtype]
ToCategorical_init(num_classes) == [cls |-> "ToCategorical", num_classes |-> num_classes]
Compose_init(transforms) == [cls |-> "Compose", transforms |-> transforms]

\* The functions the caller wraps in a LambdaTransform.
Reverse(s) == [k \in 1..Len(s) |-> s[Len(s) + 1 - k]]
CallFn(fn, X) ==
    CASE fn = "np.transpose" -> [X EXCEPT !.shape = Reverse(X.shape)]
      [] fn = "np.squeeze"   -> [X EXCEPT !.shape = SelectSeq(X.shape, LAMBDA d : d # 1)]

LambdaTransform_transform(self, X, y) == CallFn(self.fn, X)

\* np.expand_dims(X, axis): a new axis of length 1 at position axis,
\* counted from the end of the result when negative.
ExpandDims_transform(self, X, y) ==
    LET n  == Len(X.shape)
        ax == IF self.axis < 0 THEN self.axis + n + 1 ELSE self.axis
    IN  [X EXCEPT !.shape = SubSeq(X.shape, 1, ax) \o <<1>> \o SubSeq(X.shape, ax + 1, n)]

TypeCast_transform(self, X, y) == [X EXCEPT !.dtype = self.dtype]

\* tx.transform(X, y) for a member of a Compose.
Member_transform(self, X, y) ==
    CASE self.cls = "LambdaTransform" -> LambdaTransform_transform(self, X, y)
      [] self.cls = "ExpandDims"      -> ExpandDims_transform(self, X, y)
      [] self.cls = "TypeCast"        -> TypeCast_transform(self, X, y)

\* One call made by Compose.transform: which member, and what it was given.
Call(k, X, y) == [tx |-> k, X |-> X, y |-> y]

\* The loop of Compose.transform from member k on: X and the calls so far.
RECURSIVE ComposeLoop(_, _, _, _)
ComposeLoop(transforms, k, X, calls) ==
    IF k > Len(transforms) THEN [X |-> X, calls |-> calls]
    ELSE ComposeLoop(transforms, k + 1, Member_transform(transforms[k], X, NoArr),
                     Append(calls, Call(k, X, NoArr)))

\* Compose.transform losing the rebinding of X: every member is given the
\* caller's X, and the last member's result is returned.
Compose_transform_stale(self, X, y) ==
    LET n == Len(self.transforms)
    IN  [Outcome EXCEPT !.op = "Compose.transform", !.ret = "image",
                        !.X = IF n = 0 THEN X ELSE Member_transform(self.transforms[n], X, NoArr),
                        !.calls = [k \in 1..n |-> Call(k, X, NoArr)],
                        !.arg = X, !.argy = y]

Compose_transform(self, X, y) ==
    LET r == ComposeLoop(self.transforms, 1, X, <<>>)
    IN  [Outcome EXCEPT !.op = "Compose.transform", !.ret = "image", !.X = r.X,
                        !.calls = r.calls, !.arg = X, !.argy = y]

\* np.zeros((n, num_classes)) with categorical[np.arange(n), X] = 1
OneHot(X, num_classes) ==
    [i \in 1..Len(X) |-> [c \in 1..num_classes |-> IF c - 1 = X[i] THEN 1 ELSE 0]]

\* ToCategorical.transform on a list X of labels: [out, self], self being the
\* object afterwards.  num_classes = 0 stands for None (`not self.num_classes`
\* holds of both).
RECURSIVE SeqMax(_)
SeqMax(s) == IF Len(s) = 1 THEN s[1] ELSE Max(s[1], SeqMax(Tail(s)))

ToCategorical_transform(self, X, y) ==
    LET base == [Outcome EXCEPT !.op = "ToCategorical.transform", !.given = Val("list", X)]
    IN  IF self.num_classes = 0 /\ X = <<>>
        THEN [out |-> [base EXCEPT !.err = "ValueError"], self |-> self]
        ELSE
        LET num_classes == IF self.num_classes = 0 THEN SeqMax(X) + 1 ELSE self.num_classes
            after == [self EXCEPT !.num_classes = num_classes]
        IN  IF \E i \in 1..Len(X) : X[i] >= num_classes \/ X[i] < -num_classes
            THEN [out |-> [base EXCEPT !.err = "IndexError"], self |-> after]
            ELSE [out |-> [base EXCEPT !.ret = "matrix", !.rows = OneHot(X, num_classes)],
                  self |-> after]

\* Members a Compose is given, and the lists of them.
Members ==
    {ExpandDims_init(-1), ExpandDims_init(0), TypeCast_init("float32"),
     LambdaTransform_init("np.transpose"), LambdaTransform_init("np.squeeze")}
Pipelines == UNION { [1..n -> Members] : n \in 0..MaxPipe }

PipeImages == {Arr(<<1, 2>>, "uint8"), Arr(<<2, 1, 3>>, "uint8")}

\* Label lists: 1..MaxLabels labels, each in 0..MaxLabel.
LabelLists == UNION { [1..n -> 0..MaxLabel] : n \in 1..MaxLabels }

NewCompose ==
    \E ts \in Pipelines :
        /\ pipeline' = Compose_init(ts)
        /\ last' = [Outcome EXCEPT !.op = "Compose.__init__"]
        /\ UNCHANGED <<heap, ctor0, composer, composer0, tocat, tocat0>>

ComposeTransform ==
    \E X \in PipeImages :
    \E y \in Targets(X) :
        /\ pipeline # NoObj
        /\ last' = Compose_transform(pipeline, X, y)
        /\ UNCHANGED <<heap, ctor0, composer, composer0, pipeline, tocat, tocat0>>

\* ToCategorical() or ToCategorical(num_classes)
NewToCategorical ==
    \E n \in {0, MaxLabel + 1} :
        /\ tocat' = ToCategorical_init(n)
        /\ tocat0' = ToCategorical_init(n)
        /\ last' = [Outcome EXCEPT !.op = "ToCategorical.__init__", !.obj = n]
        /\ UNCHANGED <<heap, ctor0, composer, composer0, pipeline>>

ToCategoricalTransform ==
    \E X \in LabelLists :
        /\ tocat # NoObj
        /\ LET r == ToCategorical_transform(tocat, X, NoArr)
           IN  /\ tocat' = r.self
               /\ last' = [r.out EXCEPT !.obj = tocat.num_classes]
        /\ UNCHANGED <<heap, ctor0, composer, composer0, pipeline, tocat0>>

NextPipeline ==
    \/ NewCompose
    \/ ComposeTransform
    \/ NewToCategorical
    \/ ToCategoricalTransform

SpecPipeline == Init /\ [][NextPipeline]_vars

----------------------------------------------------------------------------
(* Properties *)

IsComposerTransform == last.op \in {"Affine.transform", "AffineCompose.transform"}
IsBuilderTransform ==
    last.op \in {"Rotate.transform", "Translate.transform", "Shear.transform", "Zoom.transform"}

\* C1: apply_transform called with the default channel_axis=-1 returns an
\* array of the input's shape: an (H, W, C) input yields an (H, W, C) output.
C1_ShapePreserved ==
    (last.op = "apply_transform" /\ last.axis = -1)
        => (last.err = "" /\ last.X.shape = last.arg.shape)

\* The ordered products M0 * M1 * ... of the matrices the builders of ts
\* produce for X, each builder's transform called once, with the draws made.
RECURSIVE Products(_, _, _)
Products(h, ts, X) ==
    IF Len(ts) = 1
    THEN {[matrix |-> o.matrix, draws |-> o.draws] : o \in Builder_transform(h[ts[1]], X, NoArr)}
    ELSE {[matrix |-> Dot(p.matrix, o.matrix), draws |-> p.draws \o o.draws] :
            p \in Products(h, SubSeq(ts, 1, Len(ts) - 1), X),
            o \in Builder_transform(h[ts[Len(ts)]], X, NoArr)}

\* C2: transform(X) of a composer holding k >= 1 builders completes without
\* error, and the matrix it applies is the ordered product M0 * ... * M(k-1)
\* of the matrices its builders produce for this call (M0 when k = 1).
C2_ComposerAppliesProduct ==
    (IsComposerTransform /\ composer.transforms # <<>>)
        => /\ last.err = ""
           /\ \E p \in Products(heap, composer.transforms, last.arg) :
                 last.matrix = p.matrix /\ last.draws = p.draws

\* C3: transform(X, y) of a composer, y given, draws each builder's
\* parameters once, applies the one composed matrix to X with fill_mode /
\* fill_value and to y with target_fill_mode / target_fill_value, and
\* returns the pair.
C3_SameMatrixForTarget ==
    (IsComposerTransform /\ composer.transforms # <<>> /\ last.argy # NoArr)
        => /\ last.err = ""
           /\ last.ret = "pair"
           /\ \E p \in Products(heap, composer.transforms, last.arg) :
                 last.matrix = p.matrix /\ last.draws = p.draws
           /\ last.X = apply_transform(last.arg, last.matrix, composer.fill_mode,
                                       composer.fill_value, -1).arr
           /\ last.y = apply_transform(last.argy, last.matrix, composer.target_fill_mode,
                                       composer.target_fill_value, -1).arr

\* A 2-element list or tuple (low, high) with low < high and both > 0.
ValidZoomRange(v) ==
    /\ v.type \in {"tuple", "list"}
    /\ Len(v.vals) = 2
    /\ v.vals[1] < v.vals[2]
    /\ v.vals[1] > 0
    /\ v.vals[2] > 0

\* C4: Zoom(zoom_range) with a zoom_range that is not a 2-element pair
\* (low, high), low < high, both > 0, raises at construction: no Zoom object
\* holds such a range.
C4_ZoomRangeValidated ==
    /\ \A i \in Ids : heap[i].cls = "Zoom" => ValidZoomRange(heap[i].zoom_range)
    /\ (last.op = "Zoom.__init__" /\ ~ValidZoomRange(last.given)) => last.err # ""

\* C5: every transform call on a ToCategorical constructed without
\* num_classes returns the one-hot matrix of its input, with max label + 1
\* columns, also when the input holds a higher label than earlier calls saw.
C5_OneHotEveryCall ==
    (last.op = "ToCategorical.transform" /\ tocat0.num_classes = 0)
        => /\ last.err = ""
           /\ last.rows = OneHot(last.given.vals, SeqMax(last.given.vals) + 1)

\* Arguments of Affine(...) with no effect: each range omitted, 0, or (for
\* zoom) (1, 1), and at least one of them given.
ZeroEffectArgs(a) ==
    /\ Len(a) = 4
    /\ \E k \in 1..4 : a[k] # None
    /\ a[1] \in {None, Val("float", <<0>>)}
    /\ a[2] \in {None, Val("float", <<0>>), Val("tuple", <<0, 0>>)}
    /\ a[3] \in {None, Val("float", <<0>>)}
    /\ a[4] \in {None, Val("tuple", <<1, 1>>)}

\* C6: an Affine configured with zero-effect parameters only composes the
\* identity on every transform call and returns the image; centering the
\* identity yields the identity.
C6_ZeroEffectAffineIsIdentity ==
    (last.op = "Affine.transform" /\ ZeroEffectArgs(composer0))
        => /\ last.err = ""
           /\ last.ret \in {"image", "pair"}
           /\ last.matrix = Identity
           /\ transform_matrix_offset_center(Identity, last.arg.shape[1], last.arg.shape[2])
                 = Identity

\* The draws an outcome made for one parameter.
DrawsOf(o, name) == {k \in 1..Len(o.draws) : o.draws[k].name = name}

\* C7: a Translate whose height (width) fraction is 0 produces tx (ty)
\* exactly 0 and draws nothing for that axis, on every call and image; an
\* axis with a positive fraction is drawn once, within
\* [-fraction * dimension, fraction * dimension].
C7_ZeroFractionNoShift ==
    (last.op = "Translate.transform" /\ last.err = "")
        => LET b == heap[last.obj]
               H == last.arg.shape[1]
               W == last.arg.shape[2]
               tx == last.matrix[1][3]
               ty == last.matrix[2][3]
           IN  /\ b.height_range = 0 => (tx = 0 /\ DrawsOf(last, "tx") = {})
               /\ b.width_range = 0 => (ty = 0 /\ DrawsOf(last, "ty") = {})
               /\ b.height_range > 0 =>
                     /\ Cardinality(DrawsOf(last, "tx")) = 1
                     /\ -b.height_range * H <= tx /\ tx <= b.height_range * H
               /\ b.width_range > 0 =>
                     /\ Cardinality(DrawsOf(last, "ty")) = 1
                     /\ -b.width_range * W <= ty /\ ty <= b.width_range * W

\* A height fraction of 0 with the width sampled to a shift that is not 0.
C7_Witness ==
    /\ last.op = "Translate.transform"
    /\ last.err = ""
    /\ heap[last.obj].height_range = 0
    /\ heap[last.obj].width_range > 0
    /\ last.matrix[1][3] = 0
    /\ last.matrix[2][3] # 0

\* C8: transform on a composer with zero sub-transforms raises; it returns
\* no image.
C8_EmptyComposerRaises ==
    (IsComposerTransform /\ composer.transforms = <<>>)
        => (last.err # "" /\ last.ret = "None" /\ last.X = NoArr)

\* Affine() with no range parameter, its transform called.
C8_Witness ==
    /\ last.op = "Affine.transform"
    /\ composer0 = <<None, None, None, None>>
    /\ composer.transforms = <<>>
    /\ last.err = "IndexError"

\* t_n.transform(... t_1.transform(X) ...)
RECURSIVE Nest(_, _, _)
Nest(ts, n, X) ==
    IF n = 0 THEN X ELSE Member_transform(ts[n], Nest(ts, n - 1, X), NoArr)

\* C9: Compose([t1, ..., tn]).transform(X, y) calls each ti.transform once,
\* in declared order, with the running X and never y, and returns
\* tn.transform(... t1.transform(X) ...).
C9_ComposeThreadsX ==
    last.op = "Compose.transform"
        => LET ts == pipeline.transforms
           IN  /\ last.err = ""
               /\ last.X = Nest(ts, Len(ts), last.arg)
               /\ Len(last.calls) = Len(ts)
               /\ \A k \in 1..Len(ts) :
                     last.calls[k] = Call(k, Nest(ts, k - 1, last.arg), NoArr)

\* Two members whose order matters, called with a target.
C9_Witness ==
    /\ last.op = "Compose.transform"
    /\ Len(pipeline.transforms) = 2
    /\ last.argy # NoArr
    /\ last.X # Member_transform(pipeline.transforms[1],
                    Member_transform(pipeline.transforms[2], last.arg, NoArr), NoArr)

Replaced(i) ==
    \/ last'.obj = i /\ last'.op \in {"Rotate.__init__", "Translate.__init__",
                                      "Shear.__init__", "Zoom.__init__"}
    \/ last'.op = "Affine.__init__" /\ i \notin CallerIds

====
